---- MODULE Spec2Model ----
(***************************************************************************)
(* Experiment-control logic of exp/regression_training.py: the entry       *)
(* point (parse_args, main), the repetition loop, the epoch loop with its  *)
(* checkpoint selector and early stopping, the model factory and the       *)
(* routing of constructor / forward calls, the files written to the        *)
(* output directory, and the final aggregate report.                       *)
(*                                                                         *)
(* Model names and command-line words are sequences of character codes,    *)
(* so that str.upper() and int() are computed and not assumed.  Validation *)
(* scores are integers (an order-preserving abstraction of the rank-IC     *)
(* values metric_fn returns); -inf is a value below every score.  Model    *)
(* parameters are identified by the repetition that created them and the   *)
(* number of training passes applied to them.                              *)
(***************************************************************************)
EXTENDS Integers, Sequences, FiniteSets, TLC

VARIABLES
    pc,                 \* position of the process in __main__ / main
    inv,                \* number of invocations of the entry point so far
    argv0,              \* the command line of this invocation (parse_args)
    argv,               \* the options parse_args has not consumed yet
    namespace,          \* argparse's namespace while parsing
    args,               \* the parsed arguments main runs with
    fs,                 \* the output directory: outdir, log, info.json, model.bin, model_best.bin
    atStart,            \* fs as it was when this invocation started
    did,                \* what this invocation has done so far
    err,                \* the exception that ended the process, if any
    model,              \* <<>> or <<the live model>>
    calls,              \* the forward-call signatures used on the live model
    times,              \* main: the repetition index
    epoch,              \* main: the epoch index
    broke,              \* the epoch loop was left by break
    best_score, best_epoch, stop_round, best_param, params_ckpt,
    global_best_score,
    all_precision, all_ndcg, all_ic,
    precision_mean, ndcg_mean,
    valHist,            \* this repetition's validation scores, epoch by epoch
    paramHist,          \* this repetition's parameters: initial, then after each training pass
    repHist             \* this invocation's finished repetitions: best_score and best_param

vars == <<pc, inv, argv0, argv, namespace, args, fs, atStart, did, err, model, calls,
          times, epoch, broke, best_score, best_epoch, stop_round, best_param,
          params_ckpt, global_best_score, all_precision, all_ndcg, all_ic,
          precision_mean, ndcg_mean, valHist, paramHist, repHist>>

----------------------------------------------------------------------------
(* Bounds of the model *)

MaxInvocations == 2
RerunMaxRepeat == 2
RerunMaxEpochs == 1
RerunMaxScore == 1
MaxRepeat == 2
MaxEpochs == 4
MaxPatience == 2
MaxScore == 2
MaxArgv == 3

----------------------------------------------------------------------------
(* Strings as sequences of character codes *)

Upper(c) == IF c >= 97 /\ c <= 122 THEN c - 32 ELSE c

StrUpper(s) == [i \in 1..Len(s) |-> Upper(s[i])]

S_MLP == <<77, 76, 80>>
S_LSTM == <<76, 83, 84, 77>>
S_GRU == <<71, 82, 85>>
S_GATS == <<71, 65, 84, 83>>
S_HIST == <<72, 73, 83, 84>>
S_RSR == <<82, 83, 82>>

\* 'hist', 'Rsr', 'mlp', 'Gru', 'lstm', 'gats', and two names the factory rejects: 'GAT', 'ALSTM'
S_hist == <<104, 105, 115, 116>>
S_Rsr == <<82, 115, 114>>
S_mlp == <<109, 108, 112>>
S_Gru == <<71, 114, 117>>
S_lstm == <<108, 115, 116, 109>>
S_gats == <<103, 97, 116, 115>>
S_GAT == <<71, 65, 84>>
S_ALSTM == <<65, 76, 83, 84, 77>>

ModelNames == {S_MLP, S_LSTM, S_GRU, S_GATS, S_HIST, S_RSR,
               S_hist, S_Rsr, S_mlp, S_Gru, S_lstm, S_gats, S_GAT, S_ALSTM}

----------------------------------------------------------------------------
(* Model factory and call routing *)

\* get_model: the class for a model name, or the ValueError it raises
get_model(model_name) ==
    LET u == StrUpper(model_name)
    IN  IF u = S_MLP THEN "MLP"
        ELSE IF u = S_LSTM THEN "LSTM"
        ELSE IF u = S_GRU THEN "GRU"
        ELSE IF u = S_GATS THEN "GAT"
        ELSE IF u = S_HIST THEN "HIST"
        ELSE IF u = S_RSR THEN "RSR"
        ELSE "ValueError"

\* main: the constructor call chosen for args.model_name
ConstructorRoute(model_name) ==
    IF model_name = S_HIST THEN "args"
    ELSE IF model_name = S_RSR THEN "args,num_relation"
    ELSE "args,d_feat,num_layers"

\* train_epoch, test_epoch, inference: the forward call chosen for args.model_name
ForwardRoute(model_name) ==
    IF model_name = S_HIST THEN "feature,concept_matrix,market_value"
    ELSE IF model_name = S_RSR THEN "feature,relation_matrix"
    ELSE "feature"

----------------------------------------------------------------------------
(* Parameters, scores, arrays *)

NegInf == -1

InitialParams(rep) == [rep |-> rep, step |-> 0]

\* one pass of train_epoch over the training batches
TrainedParams(p) == [p EXCEPT !.step = @ + 1]

Unbound == [rep |-> -1, step |-> 0]

\* the k-values metric_fn reports
NumK == 8

\* list(precision.values()): one number per k
MetricRow == [k \in 1..NumK |-> 0]

\* np.array(rows).shape
ArrayShape(rows) == IF Len(rows) = 0 THEN <<0>> ELSE <<Len(rows), Len(rows[1])>>

\* np.array(rows).mean(axis=0).shape   (std has the same shape)
MeanAxis0Shape(rows) == Tail(ArrayShape(rows))

\* x[k] for k in range(n) raises IndexError unless x has a first axis of length >= n
Indexable(shape, n) == Len(shape) >= 1 /\ shape[1] >= n

----------------------------------------------------------------------------
(* Decisions of main *)

\* a skip check that forgets the overwrite flag
SkipRun_IgnoresOverwrite(overwrite, infoExists) == infoExists

\* main: `not args.overwrite and os.path.exists(output_path+'/info.json')`
SkipRun(overwrite, infoExists) == ~overwrite /\ infoExists

\* a selector that also takes a tie for an improvement
Improved_OrEqual(val_score, best) == val_score >= best

\* main: `val_score > best_score`
Improved(val_score, best) == val_score > best

\* a selector that never resets the count of rounds without improvement
NextStopRound_NoReset(improved, rounds) == rounds + 1

\* main: stop_round after an epoch: `stop_round = 0` or `stop_round += 1`
NextStopRound(improved, rounds) == IF improved THEN 0 ELSE rounds + 1

\* an early stop that waits one round more
EarlyStop_Strict(rounds, early_stop) == rounds > early_stop

\* main: `stop_round >= args.early_stop`
EarlyStop(rounds, early_stop) == rounds >= early_stop

\* a selector that keeps the latest snapshot whether or not the epoch improved
SelectBestParam_Latest(improved, ckpt, old) == ckpt

\* main: best_param after an epoch: the epoch's snapshot if it improved, else as it was
SelectBestParam(improved, ckpt, old) == IF improved THEN ckpt ELSE old

\* a global best that a later repetition takes over on a tie
GlobalImproved_OrEqual(best, global_best) == best >= global_best

\* main: `best_score > global_best_score`
GlobalImproved(best, global_best) == best > global_best

\* main: info.json as written at the end of repetition `rep` of invocation `run`
InfoRecord(config, bestEpoch, run, rep) ==
    [config |-> config, best_epoch |-> bestEpoch, run |-> run, rep |-> rep]

----------------------------------------------------------------------------
(* The process and the output directory *)

EmptyDir == [outdir |-> FALSE, log |-> FALSE, info |-> <<>>,
             model_bin |-> <<>>, model_best |-> <<>>]

NoWork == [loaders |-> FALSE, models |-> 0, trained |-> FALSE, evaluated |-> FALSE,
           inferred |-> FALSE, checkpoint |-> FALSE, info |-> FALSE]

StoppedPcs == {"idle", "returned", "finished", "error", "killed"}

RunningPcs == {"main", "repeat_loop", "epoch_loop", "evaluate", "after_loop"}

\* a new process: every variable of main is unbound
FreshProcess ==
    /\ err' = "none"
    /\ model' = <<>>
    /\ calls' = {}
    /\ times' = 0
    /\ epoch' = 0
    /\ broke' = FALSE
    /\ best_score' = NegInf
    /\ best_epoch' = 0
    /\ stop_round' = 0
    /\ best_param' = Unbound
    /\ params_ckpt' = Unbound
    /\ global_best_score' = NegInf
    /\ all_precision' = <<>>
    /\ all_ndcg' = <<>>
    /\ all_ic' = <<>>
    /\ precision_mean' = <<>>
    /\ ndcg_mean' = <<>>
    /\ valHist' = <<>>
    /\ paramHist' = <<>>
    /\ repHist' = <<>>

procVars == <<err, model, calls, times, epoch, broke, best_score, best_epoch, stop_round,
              best_param, params_ckpt, global_best_score, all_precision, all_ndcg,
              all_ic, precision_mean, ndcg_mean, valHist, paramHist, repHist>>

parseVars == <<argv0, argv, namespace>>

\* __main__: the entry point is run with arguments from ArgSet
Invoke(ArgSet, maxInv) ==
    /\ pc \in StoppedPcs
    /\ inv < maxInv
    /\ \E a \in ArgSet : args' = a
    /\ pc' = "main"
    /\ inv' = inv + 1
    /\ atStart' = fs
    /\ did' = NoWork
    /\ FreshProcess
    /\ UNCHANGED <<fs, parseVars>>

\* main, up to the repetition loop: output directory, skip check, writer, log, loaders
MainStart ==
    /\ pc = "main"
    /\ IF SkipRun(args.overwrite, fs.info # <<>>)
       THEN /\ pc' = "returned"
            /\ fs' = [fs EXCEPT !.outdir = TRUE]
            /\ UNCHANGED <<did, global_best_score, all_precision, all_ndcg, all_ic, times>>
       ELSE /\ pc' = "repeat_loop"
            /\ fs' = [fs EXCEPT !.outdir = TRUE, !.log = TRUE]
            /\ did' = [did EXCEPT !.loaders = TRUE]
            /\ global_best_score' = NegInf
            /\ all_precision' = <<>>
            /\ all_ndcg' = <<>>
            /\ all_ic' = <<>>
            /\ times' = 0
    /\ UNCHANGED <<inv, args, atStart, parseVars, err, model, calls, epoch, broke,
                   best_score, best_epoch, stop_round, best_param, params_ckpt,
                   precision_mean, ndcg_mean, valHist, paramHist, repHist>>

\* main: the head of one repetition: model, optimizer, selector state
BeginRepetition ==
    /\ pc = "repeat_loop"
    /\ times < args.repeat
    /\ IF get_model(args.model_name) = "ValueError"
       THEN /\ pc' = "error"
            /\ err' = "ValueError"
            /\ UNCHANGED <<model, calls, did, epoch, broke, best_score, best_epoch,
                           stop_round, best_param, valHist, paramHist>>
       ELSE /\ pc' = "epoch_loop"
            /\ err' = err
            /\ model' = << [class |-> get_model(args.model_name),
                            constructor |-> ConstructorRoute(args.model_name),
                            params |-> InitialParams(times)] >>
            /\ calls' = {}
            /\ did' = [did EXCEPT !.models = @ + 1]
            /\ best_score' = NegInf
            /\ best_epoch' = 0
            /\ stop_round' = 0
            /\ best_param' = InitialParams(times)
            /\ epoch' = 0
            /\ broke' = FALSE
            /\ valHist' = <<>>
            /\ paramHist' = << InitialParams(times) >>
    /\ UNCHANGED <<inv, args, fs, atStart, parseVars, times, params_ckpt,
                   global_best_score, all_precision, all_ndcg, all_ic,
                   precision_mean, ndcg_mean, repHist>>

\* main: train_epoch, then the snapshot params_ckpt
TrainEpoch ==
    /\ pc = "epoch_loop"
    /\ epoch < args.n_epochs
    /\ pc' = "evaluate"
    /\ model' = << [model[1] EXCEPT !.params = TrainedParams(@)] >>
    /\ calls' = calls \cup {ForwardRoute(args.model_name)}
    /\ params_ckpt' = TrainedParams(model[1].params)
    /\ paramHist' = Append(paramHist, TrainedParams(model[1].params))
    /\ did' = [did EXCEPT !.trained = TRUE]
    /\ UNCHANGED <<inv, args, fs, atStart, parseVars, err, times, epoch, broke,
                   best_score, best_epoch, stop_round, best_param, global_best_score,
                   all_precision, all_ndcg, all_ic, precision_mean, ndcg_mean,
                   valHist, repHist>>

\* main: the three test_epoch passes, then the checkpoint selector and early stopping
Evaluate(ScoreSet) ==
    /\ pc = "evaluate"
    /\ \E val_score \in ScoreSet :
        LET improved == Improved(val_score, best_score)
            rounds == NextStopRound(improved, stop_round)
            stop == ~improved /\ EarlyStop(rounds, args.early_stop)
        IN  /\ valHist' = Append(valHist, val_score)
            /\ best_score' = IF improved THEN val_score ELSE best_score
            /\ best_epoch' = IF improved THEN epoch ELSE best_epoch
            /\ stop_round' = rounds
            /\ best_param' = SelectBestParam(improved, params_ckpt, best_param)
            /\ broke' = stop
            /\ pc' = IF stop THEN "after_loop" ELSE "epoch_loop"
            /\ epoch' = IF stop THEN epoch ELSE epoch + 1
    /\ calls' = calls \cup {ForwardRoute(args.model_name)}
    /\ did' = [did EXCEPT !.evaluated = TRUE]
    /\ UNCHANGED <<inv, args, fs, atStart, parseVars, err, model, times, params_ckpt,
                   global_best_score, all_precision, all_ndcg, all_ic,
                   precision_mean, ndcg_mean, paramHist, repHist>>

\* the epoch loop is over: by break, or range(args.n_epochs) is exhausted
LoopOver == IF pc = "after_loop" THEN TRUE ELSE pc = "epoch_loop" /\ epoch >= args.n_epochs

\* main: the tail of one repetition: restore, checkpoints, inference, metrics, info.json
EndRepetition ==
    /\ LoopOver
    /\ pc' = "repeat_loop"
    /\ model' = << [model[1] EXCEPT !.params = best_param] >>
    /\ fs' = [fs EXCEPT !.model_bin = <<best_param>>,
                        !.model_best = IF GlobalImproved(best_score, global_best_score)
                                       THEN <<best_param>> ELSE @,
                        !.info = << InfoRecord(args, best_epoch, inv, times) >>]
    /\ global_best_score' = IF GlobalImproved(best_score, global_best_score)
                            THEN best_score ELSE global_best_score
    /\ calls' = calls \cup {ForwardRoute(args.model_name)}
    /\ all_precision' = Append(all_precision, MetricRow)
    /\ all_ndcg' = Append(all_ndcg, MetricRow)
    /\ all_ic' = Append(all_ic, 0)
    /\ times' = times + 1
    /\ did' = [did EXCEPT !.inferred = TRUE, !.checkpoint = TRUE, !.info = TRUE]
    /\ repHist' = Append(repHist, [best_score |-> best_score, best_param |-> best_param])
    /\ UNCHANGED <<inv, args, atStart, parseVars, err, epoch, broke, best_score,
                   best_epoch, stop_round, best_param, params_ckpt,
                   precision_mean, ndcg_mean, valHist, paramHist>>

\* main: after the last repetition: the aggregates and the report over the k-values
Finish ==
    /\ pc = "repeat_loop"
    /\ times >= args.repeat
    /\ precision_mean' = MeanAxis0Shape(all_precision)
    /\ ndcg_mean' = MeanAxis0Shape(all_ndcg)
    /\ IF Indexable(MeanAxis0Shape(all_precision), NumK)
          /\ Indexable(MeanAxis0Shape(all_ndcg), NumK)
       THEN pc' = "finished" /\ err' = err
       ELSE pc' = "error" /\ err' = "IndexError"
    /\ UNCHANGED <<inv, args, fs, atStart, did, parseVars, model, calls, times, epoch,
                   broke, best_score, best_epoch, stop_round, best_param, params_ckpt,
                   global_best_score, all_precision, all_ndcg, all_ic,
                   valHist, paramHist, repHist>>

\* the process is terminated from outside while main runs
Kill ==
    /\ pc \in RunningPcs
    /\ pc' = "killed"
    /\ UNCHANGED <<inv, args, fs, atStart, did, parseVars, procVars>>

----------------------------------------------------------------------------
(* parse_args *)

DefaultEpochs == 100
DefaultEarlyStop == 30
DefaultRepeat == 3

\* parse_args: the defaults of the arguments modelled
Defaults == [model_name |-> S_HIST, overwrite |-> FALSE, repeat |-> DefaultRepeat,
             n_epochs |-> DefaultEpochs, early_stop |-> DefaultEarlyStop]

\* int(): the value of a string of decimal digits
RECURSIVE IntOf(_)
IntOf(s) == IF s = <<>> THEN 0
            ELSE IntOf(SubSeq(s, 1, Len(s) - 1)) * 10 + (s[Len(s)] - 48)

\* file names 'a', 'b', 'c' (config files on disk) and 'x' (no such file)
F_a == <<97>>
F_b == <<98>>
F_c == <<99>>
F_x == <<120>>

\* the config files: <<>> if the path does not exist, else <<the JSON object's items>>
Disk(filename) ==
    IF filename = F_a THEN << << [key |-> "n_epochs", value |-> 7] >> >>
    ELSE IF filename = F_b THEN << << [key |-> "n_epochs", value |-> 5],
                                      [key |-> "overwrite", value |-> FALSE] >> >>
    ELSE IF filename = F_c THEN << << [key |-> "overwrite", value |-> TRUE],
                                      [key |-> "early_stop", value |-> 2] >> >>
    ELSE <<>>

\* the options a command line is made of: '5', '12', '0' are digit strings
Options == {[flag |-> "--n_epochs", value |-> <<53>>],
            [flag |-> "--n_epochs", value |-> <<49, 50>>],
            [flag |-> "--early_stop", value |-> <<48>>],
            [flag |-> "--overwrite", value |-> <<>>],
            [flag |-> "--config", value |-> F_a],
            [flag |-> "--config", value |-> F_b],
            [flag |-> "--config", value |-> F_c],
            [flag |-> "--config", value |-> F_x]}

RECURSIVE SeqsUpTo(_, _)
SeqsUpTo(S, n) ==
    IF n = 0 THEN {<<>>}
    ELSE LET shorter == SeqsUpTo(S, n - 1)
         IN  shorter \cup {Append(q, x) : q \in shorter, x \in S}

CommandLines == SeqsUpTo(Options, MaxArgv)

\* a config file that only fills in what is still at its default
RECURSIVE ApplyConfig_DefaultsOnly(_, _)
ApplyConfig_DefaultsOnly(ns, items) ==
    IF items = <<>> THEN ns
    ELSE ApplyConfig_DefaultsOnly(
             [ns EXCEPT ![items[1].key] =
                 IF ns[items[1].key] = Defaults[items[1].key] THEN items[1].value ELSE @],
             Tail(items))

\* ParseConfigFile.__call__: setattr(namespace, key, value) for each item of the file
RECURSIVE ApplyConfig(_, _)
ApplyConfig(ns, items) ==
    IF items = <<>> THEN ns
    ELSE ApplyConfig([ns EXCEPT ![items[1].key] = items[1].value], Tail(items))

\* argparse: the action of one option that is not --config
StoreFlag(ns, o) ==
    IF o.flag = "--n_epochs" THEN [ns EXCEPT !.n_epochs = IntOf(o.value)]
    ELSE IF o.flag = "--early_stop" THEN [ns EXCEPT !.early_stop = IntOf(o.value)]
    ELSE IF o.flag = "--overwrite" THEN [ns EXCEPT !.overwrite = TRUE]
    ELSE ns

\* parser.parse_args: the next option of the command line is consumed and its action run
ParseOption ==
    /\ pc = "parse"
    /\ argv # <<>>
    /\ argv' = Tail(argv)
    /\ IF Head(argv).flag = "--config"
       THEN IF Disk(Head(argv).value) = <<>>
            THEN /\ pc' = "error"
                 /\ err' = "ValueError"
                 /\ namespace' = namespace
            ELSE /\ pc' = pc
                 /\ err' = err
                 /\ namespace' = ApplyConfig(namespace, Disk(Head(argv).value)[1])
       ELSE /\ pc' = pc
            /\ err' = err
            /\ namespace' = StoreFlag(namespace, Head(argv))
    /\ UNCHANGED <<inv, argv0, args, fs, atStart, did, model, calls, times, epoch, broke,
                   best_score, best_epoch, stop_round, best_param, params_ckpt,
                   global_best_score, all_precision, all_ndcg, all_ic,
                   precision_mean, ndcg_mean, valHist, paramHist, repHist>>

\* __main__: parse_args returns the namespace and main(args) is called
ParseEnd ==
    /\ pc = "parse"
    /\ argv = <<>>
    /\ args' = namespace
    /\ pc' = "main"
    /\ UNCHANGED <<inv, parseVars, fs, atStart, did, procVars>>

----------------------------------------------------------------------------
(* Specifications *)

InitProcess ==
    /\ err = "none"
    /\ model = <<>>
    /\ calls = {}
    /\ times = 0
    /\ epoch = 0
    /\ broke = FALSE
    /\ best_score = NegInf
    /\ best_epoch = 0
    /\ stop_round = 0
    /\ best_param = Unbound
    /\ params_ckpt = Unbound
    /\ global_best_score = NegInf
    /\ all_precision = <<>>
    /\ all_ndcg = <<>>
    /\ all_ic = <<>>
    /\ precision_mean = <<>>
    /\ ndcg_mean = <<>>
    /\ valHist = <<>>
    /\ paramHist = <<>>
    /\ repHist = <<>>

\* an empty output directory, and no process yet
Init ==
    /\ pc = "idle"
    /\ inv = 0
    /\ argv0 = <<>>
    /\ argv = <<>>
    /\ namespace = Defaults
    /\ args = Defaults
    /\ fs = EmptyDir
    /\ atStart = EmptyDir
    /\ did = NoWork
    /\ InitProcess

\* the entry point started on a command line, an empty output directory
InitArgs ==
    /\ pc = "parse"
    /\ inv = 1
    /\ argv0 \in CommandLines
    /\ argv = argv0
    /\ namespace = Defaults
    /\ args = Defaults
    /\ fs = EmptyDir
    /\ atStart = EmptyDir
    /\ did = NoWork
    /\ InitProcess

\* one run on an empty output directory
RunArgs == [model_name : {S_HIST}, overwrite : {FALSE}, repeat : 0..MaxRepeat,
            n_epochs : 0..MaxEpochs, early_stop : 0..MaxPatience]

\* repeated runs on one output directory, with short epoch loops
RerunArgs == [model_name : {S_HIST}, overwrite : BOOLEAN, repeat : 0..RerunMaxRepeat,
              n_epochs : 0..RerunMaxEpochs, early_stop : {1}]

\* one run, every model name
FactoryArgs == [model_name : ModelNames, overwrite : {FALSE}, repeat : 0..RerunMaxRepeat,
                n_epochs : 0..RerunMaxEpochs, early_stop : {1}]

Next ==
    \/ Invoke(RunArgs, 1)
    \/ MainStart
    \/ BeginRepetition
    \/ TrainEpoch
    \/ Evaluate(0..MaxScore)
    \/ EndRepetition
    \/ Finish

Spec == Init /\ [][Next]_vars

NextRerun ==
    \/ Invoke(RerunArgs, MaxInvocations)
    \/ MainStart
    \/ BeginRepetition
    \/ TrainEpoch
    \/ Evaluate(0..RerunMaxScore)
    \/ EndRepetition
    \/ Finish
    \/ Kill

SpecRerun == Init /\ [][NextRerun]_vars

NextFactory ==
    \/ Invoke(FactoryArgs, 1)
    \/ MainStart
    \/ BeginRepetition
    \/ TrainEpoch
    \/ Evaluate(0..RerunMaxScore)
    \/ EndRepetition
    \/ Finish

SpecFactory == Init /\ [][NextFactory]_vars

NextArgs ==
    \/ ParseOption
    \/ ParseEnd
    \/ MainStart

SpecArgs == InitArgs /\ [][NextArgs]_vars

----------------------------------------------------------------------------
(* Properties *)

SeqMax(s) == CHOOSE m \in {s[i] : i \in 1..Len(s)} : \A i \in 1..Len(s) : s[i] <= m

\* the first position of s that holds v
FirstAt(s, v) == CHOOSE i \in 1..Len(s) : s[i] = v /\ \A j \in 1..(i - 1) : s[j] # v

NonDecreasing(s) == \A i \in 1..(Len(s) - 1) : s[i] <= s[i + 1]

StrictlyIncreasing(s) == \A i \in 1..(Len(s) - 1) : s[i] < s[i + 1]

StrictlyDecreasing(s) == \A i \in 1..(Len(s) - 1) : s[i] > s[i + 1]

\* a repetition has built its model; valHist holds the scores of its completed epochs
InRepetition == model # <<>>

\* C1: within a repetition, before any epoch the selector holds best_score = -inf,
\* best_epoch = 0, stop_round = 0; after every completed epoch best_score is the maximum
\* of the validation scores so far, best_epoch is the first epoch that attained it, and
\* the one retained snapshot best_param is a snapshot of this repetition.
C1_SelectorInvariant ==
    InRepetition =>
        /\ \E i \in 1..Len(paramHist) : best_param = paramHist[i]
        /\ IF valHist = <<>>
           THEN best_score = NegInf /\ best_epoch = 0 /\ stop_round = 0
           ELSE /\ best_score = SeqMax(valHist)
                /\ best_epoch = FirstAt(valHist, SeqMax(valHist)) - 1

\* C1 witness: a later epoch tied with the best one and did not replace it
C1_Witness ==
    /\ InRepetition
    /\ pc = "epoch_loop"
    /\ Len(valHist) >= 3
    /\ \E i \in 1..Len(valHist) : \E j \in (i + 1)..Len(valHist) :
          /\ valHist[i] = SeqMax(valHist)
          /\ valHist[j] = SeqMax(valHist)
          /\ best_epoch = i - 1
          /\ i >= 2

\* C2 as stated: on a non-decreasing validation-score sequence (ties allowed)
\* stop_round stays 0 and best_epoch is the latest epoch after every epoch.
C2_NonDecreasingTracksLatest ==
    (InRepetition /\ valHist # <<>> /\ NonDecreasing(valHist)) =>
        (stop_round = 0 /\ best_epoch = Len(valHist) - 1)

\* C2 amended: on a strictly increasing validation-score sequence stop_round stays 0
\* and best_epoch is the latest epoch after every epoch.
C2_StrictlyIncreasingTracksLatest ==
    (InRepetition /\ valHist # <<>> /\ StrictlyIncreasing(valHist)) =>
        (stop_round = 0 /\ best_epoch = Len(valHist) - 1)

\* C2 witness: three epochs of strictly increasing scores
C2_Witness ==
    /\ InRepetition
    /\ pc = "epoch_loop"
    /\ Len(valHist) >= 3
    /\ StrictlyIncreasing(valHist)
    /\ best_epoch = Len(valHist) - 1

\* C3 as stated: on a strictly decreasing validation-score sequence, with
\* n_epochs > early_stop, best_epoch stays 0, the loop breaks at epoch number early_stop
\* and not before, for every early_stop including 0.
C3_BreaksAtEarlyStop ==
    (InRepetition /\ Len(valHist) >= 2 /\ StrictlyDecreasing(valHist)
       /\ args.n_epochs > args.early_stop) =>
        /\ best_epoch = 0
        /\ broke => epoch = args.early_stop
        /\ ~broke => Len(valHist) <= args.early_stop

\* the epoch at which a strictly decreasing sequence exhausts the patience
BreakEpoch(early_stop) == IF early_stop >= 1 THEN early_stop ELSE 1

\* C3 amended: on a strictly decreasing validation-score sequence best_epoch stays 0
\* and the loop breaks at epoch number early_stop when early_stop >= 1, at epoch 1 when
\* early_stop = 0 (epoch 0 always improves on -inf), and at no earlier epoch; a loop
\* with fewer epochs than that ends without a break.
C3_BreaksAtPatience ==
    (InRepetition /\ valHist # <<>> /\ StrictlyDecreasing(valHist)) =>
        /\ best_epoch = 0
        /\ broke => (epoch = BreakEpoch(args.early_stop) /\ Len(valHist) = epoch + 1)
        /\ ~broke => Len(valHist) <= BreakEpoch(args.early_stop)
        /\ (~broke /\ pc = "epoch_loop") => stop_round = Len(valHist) - 1

\* C3 witness: patience 2 exhausted at epoch 2 of a strictly decreasing sequence
C3_Witness ==
    /\ InRepetition
    /\ broke
    /\ pc = "after_loop"
    /\ StrictlyDecreasing(valHist)
    /\ args.early_stop = 2
    /\ epoch = 2

\* the snapshot taken right after the training pass of best_epoch (the initial
\* parameters if no epoch has been scored)
BestSnapshot == IF valHist = <<>> THEN paramHist[1] ELSE paramHist[best_epoch + 2]

\* the repetition's tail has run and the next repetition has not begun
RepetitionEnded ==
    /\ InRepetition
    /\ pc \in {"repeat_loop", "finished", "error"}
    /\ Len(repHist) = times
    /\ times >= 1

\* C10: the retained snapshot is the parameters right after the training pass of
\* best_epoch; evaluation leaves the live parameters as training left them; at the end
\* of the repetition the model and model.bin hold that snapshot; with no scored epoch
\* it is the initial parameters and best_epoch = 0.
C10_SnapshotBeforeMeasurement ==
    InRepetition =>
        /\ best_param = BestSnapshot
        /\ pc \in {"epoch_loop", "evaluate", "after_loop"} =>
              model[1].params = paramHist[Len(paramHist)]
        /\ pc \in {"epoch_loop", "after_loop"} => Len(paramHist) = Len(valHist) + 1
        /\ RepetitionEnded =>
              /\ model[1].params = BestSnapshot
              /\ fs.model_bin = << BestSnapshot >>
              /\ valHist = <<>> =>
                    (best_epoch = 0 /\ BestSnapshot = InitialParams(times - 1))

\* C10 witness: a repetition ended whose best epoch was neither the first nor the last
C10_Witness ==
    /\ RepetitionEnded
    /\ Len(valHist) >= 3
    /\ best_epoch = 1
    /\ model[1].params = paramHist[3]

\* the run was not skipped: main went past the skip check
PastSkipCheck ==
    pc \in {"repeat_loop", "epoch_loop", "evaluate", "after_loop", "finished", "error"}

\* C4: a run that finds info.json with overwrite = false returns having created no
\* loaders and no model, run no training, evaluation or inference, written no
\* checkpoint, and with info.json and the checkpoints as they were; with overwrite =
\* true, or without info.json, the run goes on, and a run that finishes has executed
\* all its repetitions.
C4_IdempotentSkip ==
    /\ pc = "returned" =>
          /\ ~args.overwrite
          /\ atStart.info # <<>>
          /\ did = NoWork
          /\ model = <<>>
          /\ fs = atStart
    /\ PastSkipCheck => did.loaders
    /\ did.loaders => (args.overwrite \/ atStart.info = <<>>)
    /\ did # NoWork => did.loaders
    /\ pc = "finished" => (Len(repHist) = args.repeat /\ did.models = args.repeat)

\* C4 witness: the second invocation found the first one's info.json and returned
C4_Witness ==
    /\ pc = "returned"
    /\ inv = 2
    /\ fs.info # <<>>
    /\ fs.info[1].run = 1

\* C5 as stated: for every repeat = R >= 0 a run that reaches the end of the
\* repetition loop has executed exactly R cycles, appended one entry per cycle to
\* each metric sequence, and completes the report with mean arrays of length 8.
C5_ReportCompletes ==
    (inv >= 1 /\ pc \in {"finished", "error"}) =>
        /\ pc = "finished"
        /\ did.models = args.repeat
        /\ Len(all_precision) = args.repeat
        /\ Len(all_ndcg) = args.repeat
        /\ Len(all_ic) = args.repeat
        /\ precision_mean = <<NumK>>
        /\ ndcg_mean = <<NumK>>

BestScores == [i \in 1..Len(repHist) |-> repHist[i].best_score]

\* C6 as stated: after every repetition global_best_score is the maximum of the
\* repetitions' best scores, model_best.bin holds the best_param of the first
\* repetition that attained it, and model.bin holds that of the latest repetition.
C6_GlobalBestPersisted ==
    repHist # <<>> =>
        /\ global_best_score = SeqMax(BestScores)
        /\ fs.model_best = << repHist[FirstAt(BestScores, SeqMax(BestScores))].best_param >>
        /\ fs.model_bin = << repHist[Len(repHist)].best_param >>

\* C6 amended: after every repetition global_best_score is the maximum of the
\* repetitions' best scores and never decreases, and model.bin holds the best_param of
\* the latest repetition; once some repetition has scored above -inf, model_best.bin
\* holds the best_param of the first repetition that attained the maximum; while every
\* best score is still -inf (no epoch was run), this run has not written model_best.bin.
C6_GlobalBestPersistedOnceScored ==
    repHist # <<>> =>
        /\ global_best_score = SeqMax(BestScores)
        /\ fs.model_bin = << repHist[Len(repHist)].best_param >>
        /\ IF global_best_score > NegInf
           THEN fs.model_best =
                   << repHist[FirstAt(BestScores, SeqMax(BestScores))].best_param >>
           ELSE fs.model_best = atStart.model_best

\* C6 witness: the second repetition tied with the first, whose parameters stay in
\* model_best.bin while model.bin holds the second's
C6_Witness ==
    /\ Len(repHist) = 2
    /\ repHist[1].best_score = repHist[2].best_score
    /\ repHist[1].best_score > NegInf
    /\ fs.model_best = << repHist[1].best_param >>
    /\ fs.model_bin = << repHist[2].best_param >>
    /\ fs.model_bin # fs.model_best

\* what each model class needs: HIST the concept matrix and market value, RSR the
\* relation count at construction and the relation sub-matrix at call, others features
RequiredConstructor(class) ==
    IF class = "HIST" THEN "args"
    ELSE IF class = "RSR" THEN "args,num_relation"
    ELSE "args,d_feat,num_layers"

RequiredForward(class) ==
    IF class = "HIST" THEN "feature,concept_matrix,market_value"
    ELSE IF class = "RSR" THEN "feature,relation_matrix"
    ELSE "feature"

\* C7 as stated: every model the factory returns is constructed and called with the
\* inputs its class needs, and a run ends with the unknown-model error exactly when
\* the factory does not know the name.
C7_FactoryConsistent ==
    /\ InRepetition =>
          /\ model[1].class = get_model(args.model_name)
          /\ model[1].constructor = RequiredConstructor(model[1].class)
          /\ \A c \in calls : c = RequiredForward(model[1].class)
    /\ err = "ValueError" => get_model(args.model_name) = "ValueError"
    /\ (InRepetition \/ did.models > 0) => get_model(args.model_name) # "ValueError"

InfoComplete(info) == info = <<>> \/ info[1].rep + 1 = info[1].config.repeat

\* C8 as stated: info.json exists only once all repetitions of the run that wrote it
\* have finished, so a run that takes the skip branch found the info.json of a run
\* that had completed.
C8_InfoOnlyOnCompletion ==
    /\ InfoComplete(fs.info)
    /\ pc = "returned" => InfoComplete(atStart.info)

Keys == {"n_epochs", "early_stop", "overwrite"}

FlagOf(k) == IF k = "n_epochs" THEN "--n_epochs"
             ELSE IF k = "early_stop" THEN "--early_stop"
             ELSE "--overwrite"

FileItems(o) == IF o.flag = "--config" /\ Disk(o.value) # <<>> THEN Disk(o.value)[1] ELSE <<>>

MissingConfig(o) == o.flag = "--config" /\ Disk(o.value) = <<>>

FileSets(o, k) == \E i \in 1..Len(FileItems(o)) : FileItems(o)[i].key = k

FileValue(o, k) ==
    FileItems(o)[CHOOSE i \in 1..Len(FileItems(o)) : FileItems(o)[i].key = k].value

FlagSets(o, k) == o.flag = FlagOf(k)

FlagValue(o, k) == IF k = "overwrite" THEN TRUE ELSE IntOf(o.value)

SetMax(S) == CHOOSE m \in S : \A x \in S : x <= m

\* the value of key k a command line ends with: that of the last option that sets it
LastWriterValue(line, k) ==
    LET writers == {i \in 1..Len(line) : FlagSets(line[i], k) \/ FileSets(line[i], k)}
    IN  IF writers = {} THEN Defaults[k]
        ELSE IF FlagSets(line[SetMax(writers)], k)
             THEN FlagValue(line[SetMax(writers)], k)
             ELSE FileValue(line[SetMax(writers)], k)

\* the value of key k in the last config file of the command line that sets it
LastFileValue(line, k) ==
    FileValue(line[SetMax({i \in 1..Len(line) : FileSets(line[i], k)})], k)

\* parse_args has returned and main runs with its result
Parsed == pc \in {"main", "repeat_loop", "returned"}

\* C9 as stated: a key given both in a config file and by a flag ends with the file's
\* value, whatever their order on the command line; a missing config path aborts
\* before main starts, with nothing created.
C9_FileAlwaysWins ==
    /\ Parsed =>
          \A k \in Keys :
              ((\E i \in 1..Len(argv0) : FlagSets(argv0[i], k))
                 /\ (\E j \in 1..Len(argv0) : FileSets(argv0[j], k)))
              => args[k] = LastFileValue(argv0, k)
    /\ pc = "error" => (fs = EmptyDir /\ did = NoWork)

\* C9 amended: every key ends with the value of the last option on the command line
\* that sets it, a flag or a config file (so the file's value wins over a flag only if
\* --config comes after that flag), and with the default if none does; keys only in
\* the file override the defaults; a missing config path aborts argument parsing
\* before main starts, with no output directory, log or checkpoint created.
C9_LastWriterWins ==
    /\ Parsed =>
          /\ \A k \in Keys : args[k] = LastWriterValue(argv0, k)
          /\ \A i \in 1..Len(argv0) : ~MissingConfig(argv0[i])
    /\ pc = "error" =>
          /\ fs = EmptyDir
          /\ did = NoWork
          /\ \E i \in 1..Len(argv0) : MissingConfig(argv0[i])
    /\ (pc = "parse" /\ \E i \in 1..(Len(argv0) - Len(argv)) : MissingConfig(argv0[i])) => FALSE

\* C9 witness: main runs on a command line where --n_epochs comes after a config file
\* that sets n_epochs to another value, and a later config file sets overwrite
C9_Witness ==
    /\ pc = "repeat_loop"
    /\ fs.outdir
    /\ Len(argv0) = 3
    /\ FileSets(argv0[1], "n_epochs")
    /\ FlagSets(argv0[2], "n_epochs")
    /\ FileSets(argv0[3], "overwrite")
    /\ FlagValue(argv0[2], "n_epochs") # FileValue(argv0[1], "n_epochs")
    /\ args.n_epochs = FlagValue(argv0[2], "n_epochs")
    /\ args.overwrite = FileValue(argv0[3], "overwrite")

====
